---- MODULE Spec2Model ----
(***************************************************************************)
(* A model of the NBC retrieval assistant: the PDF structuring pipeline    *)
(* (main.py, extract_pdf.py, extract_embed_fastapi.py), the indexers       *)
(* (main.py, extract_embed_fastapi.py, embed.py) and the query pipeline    *)
(* (bot.py), all working on the one persistent store "chroma_store".       *)
(*                                                                         *)
(* Text is a sequence of one-character strings, so that strip, split,      *)
(* join and the regular expressions are computed as the code computes      *)
(* them.                                                                   *)
(***************************************************************************)
EXTENDS Integers, Sequences, FiniteSets, TLC

\* ------------------------------------------------------------------ text

NL == "\n"

Digits == {"0", "1", "2", "3", "4", "5", "6", "7", "8", "9"}

Uppers == {"A", "B", "C", "D", "E", "F", "G", "H", "I", "J", "K", "L", "M",
           "N", "O", "P", "Q", "R", "S", "T", "U", "V", "W", "X", "Y", "Z"}

\* What Python's str.strip() and the pattern \s take for white space.
Spaces == {" ", "\n", "\t", "\r", "\f"}

IsDigit(c) == c \in Digits

IsUpper(c) == c \in Uppers

IsSpace(c) == c \in Spaces

\* An optional string (a table cell, a page's text as pdfplumber gives it): None,
\* or the string.
None == [none |-> TRUE]

Str(s) == [none |-> FALSE, str |-> s]

\* Python's truth value of an optional string: None and "" are false.
Truthy(c) == ~c.none /\ c.str # <<>>

\* The outcome of a call that may raise: its value, or the exception.
Ok(v) == [raised |-> FALSE, value |-> v]

Raised(cause) == [raised |-> TRUE, cause |-> cause]

\* The lower-case form of one character, for the IGNORECASE patterns (only
\* the letters those patterns name).
lower(c) ==
    CASE c = "T" -> "t" [] c = "A" -> "a" [] c = "B" -> "b" [] c = "L" -> "l"
      [] c = "E" -> "e" [] c = "F" -> "f" [] c = "I" -> "i" [] c = "G" -> "g"
      [] c = "U" -> "u" [] c = "R" -> "r" [] OTHER -> c

\* The first position from p on whose character is not in / is in the class
\* cls; Len(s) + 1 when there is none.
first_not_in(s, p, cls) ==
    CHOOSE e \in p..(Len(s) + 1) :
        /\ \A k \in p..(e - 1) : s[k] \in cls
        /\ (e <= Len(s) => s[e] \notin cls)

first_in(s, p, cls) ==
    CHOOSE e \in p..(Len(s) + 1) :
        /\ \A k \in p..(e - 1) : s[k] \notin cls
        /\ (e <= Len(s) => s[e] \in cls)

\* The last position whose character is not in cls; 0 when there is none.
last_not_in(s, cls) ==
    CHOOSE e \in 0..Len(s) :
        /\ \A k \in (e + 1)..Len(s) : s[k] \in cls
        /\ (e >= 1 => s[e] \notin cls)

\* s.strip(chars)
strip_chars(s, cls) == SubSeq(s, first_not_in(s, 1, cls), last_not_in(s, cls))

\* str.strip()
strip(s) == strip_chars(s, Spaces)

\* text.split(sep) from position p on: the pieces between the separators, the
\* empty ones kept.
RECURSIVE split_from(_, _, _)
split_from(s, sep, p) ==
    LET e == first_in(s, p, {sep})
    IN  <<SubSeq(s, p, e - 1)>> \o (IF e > Len(s) THEN <<>> ELSE split_from(s, sep, e + 1))

split(s, sep) == split_from(s, sep, 1)

\* sep.join(parts)
RECURSIVE join(_, _)
join(sep, parts) ==
    IF parts = <<>> THEN <<>>
    ELSE IF Len(parts) = 1 THEN parts[1]
    ELSE parts[1] \o sep \o join(sep, Tail(parts))

\* Whether pat occurs in s at position p (1-based).
OccursAt(s, pat, p) ==
    /\ p >= 1
    /\ p + Len(pat) - 1 <= Len(s)
    /\ SubSeq(s, p, p + Len(pat) - 1) = pat

\* The length of the longest run of characters of class cls that starts at p.
run(s, p, cls) == first_not_in(s, p, cls) - p

\* The length of the run of characters other than the new line that starts at p.
run_line(s, p) == first_in(s, p, {NL}) - p

\* str(n) of a natural number.
RECURSIVE str_of_int(_)
str_of_int(n) ==
    LET d == <<"0", "1", "2", "3", "4", "5", "6", "7", "8", "9">>[(n % 10) + 1]
    IN  IF n < 10 THEN <<d>> ELSE Append(str_of_int(n \div 10), d)

\* ------------------------------------------------- clean_paragraphs (main.py)

S_SupplyBureau == <<"S","u","p","p","l","y"," ","B","u","r","e","a","u">>

S_ValidUpto == <<"v","a","l","i","d"," ","u","p","t","o">>

\* re.search(r"Supply Bureau.*valid upto", line) on one line (no new line in it).
is_watermark(line) ==
    \E i \in 1..Len(line) :
        /\ OccursAt(line, S_SupplyBureau, i)
        /\ \E j \in (i + Len(S_SupplyBureau))..Len(line) : OccursAt(line, S_ValidUpto, j)

RECURSIVE keep_lines(_)
keep_lines(lines) ==
    IF lines = <<>> THEN <<>>
    ELSE IF strip(Head(lines)) # <<>> /\ ~is_watermark(Head(lines))
         THEN <<strip(Head(lines))>> \o keep_lines(Tail(lines))
         ELSE keep_lines(Tail(lines))

clean_paragraphs(text) == keep_lines(split(text, NL))

\* -------------------------------------------- extract_clause_blocks (main.py)

NoMatch == [matched |-> FALSE]

\* The end (exclusive) of the longest (?:\.\d+)* that starts at q. A shorter one
\* is followed by a digit or a ".", never by white space, so backtracking into it
\* cannot make the rest of the pattern match.
RECURSIVE groups_end(_, _)
groups_end(t, q) ==
    IF q + 1 <= Len(t) /\ t[q] = "." /\ IsDigit(t[q + 1])
    THEN groups_end(t, q + 1 + run(t, q + 1, Digits))
    ELSE q

\* The pattern with a major numeral of exactly d digits, at p.
clause_match_major(t, p, d) ==
    IF ~(p + d - 1 <= Len(t) /\ \A k \in p..(p + d - 1) : IsDigit(t[k]))
    THEN NoMatch
    ELSE LET q == p + d
             \* g: the end of the numeral, r: the end of \s+, n: the length of
             \* the [^\n] run after the capital at r.
             title(g, r, n) ==
                 IF g > q /\ r > g /\ r <= Len(t) /\ IsUpper(t[r]) /\ n >= 5
                 THEN [matched |-> TRUE, start |-> p, end |-> r + 1 + n,
                       group1 |-> SubSeq(t, p, g - 1),
                       group2 |-> SubSeq(t, r, r + n)]
                 ELSE NoMatch
             space(g, r) == title(g, r, IF r <= Len(t) THEN run_line(t, r + 1) ELSE 0)
             numeral(g)  == space(g, g + run(t, g, Spaces))
         IN  numeral(groups_end(t, q))

\* (?<!\d)(\d{1,2}(?:\.\d+)+)\s+([A-Z][^\n]{5,}) at p: \d{1,2} is greedy, two
\* digits are tried before one.
clause_match_at(t, p) ==
    IF p > 1 /\ IsDigit(t[p - 1]) THEN NoMatch
    ELSE LET or_one(two) == IF two.matched THEN two ELSE clause_match_major(t, p, 1)
         IN  or_one(clause_match_major(t, p, 2))

\* clause_pattern.finditer(text) from position p on: leftmost first, the next
\* search starting where the match ended.
RECURSIVE clause_finditer(_, _)
clause_finditer(t, p) ==
    LET rest(m)   == <<m>> \o clause_finditer(t, m.end)
        first(at) == IF at = {} THEN <<>>
                     ELSE rest(clause_match_at(t, CHOOSE k \in at : \A j \in at : k <= j))
    IN  first({k \in p..Len(t) : clause_match_at(t, k).matched})

\* extract_clause_blocks with every body running to the end of the text.
extract_clause_blocks_to_end(text) ==
    LET block(match, start) ==
            [clause_number |-> match.group1,
             clause_title  |-> strip(match.group2),
             paragraphs    |-> clean_paragraphs(SubSeq(text, start, Len(text)))]
        blocks_of(ms) == [i \in 1..Len(ms) |-> block(ms[i], ms[i].end)]
    IN  blocks_of(clause_finditer(text, 1))

extract_clause_blocks(text) ==
    LET block(match, start, end) ==
            [clause_number |-> match.group1,
             clause_title  |-> strip(match.group2),
             paragraphs    |-> clean_paragraphs(SubSeq(text, start, end - 1))]
        blocks(matches) ==
            [i \in 1..Len(matches) |->
                block(matches[i], matches[i].end,
                      IF i + 1 <= Len(matches) THEN matches[i + 1].start
                      ELSE Len(text) + 1)]
    IN  blocks(clause_finditer(text, 1))

\* ------------------------------------------------- find_table_title (main.py)

S_table == <<"t","a","b","l","e">>

S_AutoDetectedTable ==
    <<"A","u","t","o","-","d","e","t","e","c","t","e","d"," ","T","a","b","l","e">>

lower_all(s) == [k \in 1..Len(s) |-> lower(s[k])]

\* re.match(r'^Table\s*\d+', line, re.IGNORECASE)
is_table_title(line) ==
    /\ Len(line) >= 5
    /\ lower_all(SubSeq(line, 1, 5)) = S_table
    /\ LET d == first_not_in(line, 6, Spaces) IN d <= Len(line) /\ IsDigit(line[d])

\* The loop of find_table_title from line i down to line stop (0-based, both
\* inclusive): the first line that is a table title, stripped.
RECURSIVE title_scan(_, _, _)
title_scan(lines, i, stop) ==
    IF i < stop THEN S_AutoDetectedTable
    ELSE IF is_table_title(strip(lines[i + 1])) THEN strip(lines[i + 1])
    ELSE title_scan(lines, i - 1, stop)

\* find_table_title(lines, index): i runs over range(index - 1, max(index - 5, -1), -1);
\* lines[i] raises IndexError when i is beyond the last line, which the first i
\* (the largest) decides.
find_table_title(lines, index) ==
    LET first == index - 1
        stop  == (IF index - 5 > -1 THEN index - 5 ELSE -1) + 1
    IN  IF first < stop THEN Ok(S_AutoDetectedTable)
        ELSE IF first >= Len(lines) THEN Raised("IndexError")
        ELSE Ok(title_scan(lines, first, stop))

\* ----------------------------------------- extract_tables_from_page (main.py)

\* [c.strip() if c else "" for c in row]
clean_row(row) ==
    [k \in 1..Len(row) |-> IF Truthy(row[k]) THEN strip(row[k].str) ELSE <<>>]

\* The loop over enumerate(raw_tables) from the table at idx (0-based) on, with
\* the tables built so far: an exception ends the loop and the tables built
\* before it are what the function returns.
RECURSIVE tables_loop(_, _, _, _)
tables_loop(lines, raw_tables, idx, tables) ==
    IF idx >= Len(raw_tables) THEN tables
    ELSE LET tbl == raw_tables[idx + 1]
         IN  IF tbl = <<>> \/ Len(tbl) < 2
             THEN tables_loop(lines, raw_tables, idx + 1, tables)
             ELSE LET titled(title) ==
                          IF title.raised THEN tables
                          ELSE tables_loop(lines, raw_tables, idx + 1,
                                   Append(tables,
                                       [title   |-> title.value,
                                        columns |-> clean_row(Head(tbl)),
                                        rows    |-> [k \in 1..(Len(tbl) - 1) |-> clean_row(tbl[k + 1])],
                                        notes   |-> <<>>]))
                  IN  titled(find_table_title(lines, idx))

\* plumber is what pdfplumber gives for the page: the exception when opening the
\* file, reading the page's text or detecting its tables raised, else the page's
\* text (None when it has none) and its raw tables (a cell is None or a string).
extract_tables_from_page(plumber) ==
    IF plumber.raised THEN <<>>
    ELSE LET lines == IF Truthy(plumber.value.text) THEN split(plumber.value.text.str, NL)
                      ELSE <<>>
         IN  tables_loop(lines, plumber.value.raw_tables, 0, <<>>)

\* -------------------------------------------------- extract_figures (main.py)

S_fig == <<"f","i","g">>

S_ure == <<"u","r","e">>

\* \.?\s*\d+[^:\n]* at q, the match having started at p.
figure_match_tail(t, p, q) ==
    LET a == IF q <= Len(t) /\ t[q] = "." THEN q + 1 ELSE q
        d == first_not_in(t, a, Spaces)
    IN  IF d <= Len(t) /\ IsDigit(t[d])
        THEN [matched |-> TRUE, start |-> p, end |-> first_in(t, d, {":", NL})]
        ELSE NoMatch

\* (Fig(?:ure)?\.?\s*\d+[^:\n]*) at p, ignoring case: "ure" is taken when it is
\* there, and left out when the rest then fails.
figure_match_at(t, p) ==
    IF ~(p + 2 <= Len(t) /\ lower_all(SubSeq(t, p, p + 2)) = S_fig) THEN NoMatch
    ELSE LET or_fig(figure) == IF figure.matched THEN figure
                               ELSE figure_match_tail(t, p, p + 3)
         IN  or_fig(IF p + 5 <= Len(t) /\ lower_all(SubSeq(t, p + 3, p + 5)) = S_ure
                    THEN figure_match_tail(t, p, p + 6)
                    ELSE NoMatch)

\* re.findall from position p on.
RECURSIVE figure_findall(_, _)
figure_findall(t, p) ==
    LET rest(m)   == <<SubSeq(t, m.start, m.end - 1)>> \o figure_findall(t, m.end)
        first(at) == IF at = {} THEN <<>>
                     ELSE rest(figure_match_at(t, CHOOSE k \in at : \A j \in at : k <= j))
    IN  first({k \in p..Len(t) : figure_match_at(t, k).matched})

\* s.split(None, maxsplit) from position p on.
RECURSIVE split_ws(_, _, _)
split_ws(s, p, maxsplit) ==
    LET a == first_not_in(s, p, Spaces)
    IN  IF a > Len(s) THEN <<>>
        ELSE IF maxsplit = 0 THEN <<SubSeq(s, a, Len(s))>>
        ELSE LET b == first_in(s, a, Spaces)
             IN  <<SubSeq(s, a, b - 1)>> \o split_ws(s, b, maxsplit - 1)

RECURSIVE figures_of(_)
figures_of(figs) ==
    IF figs = <<>> THEN <<>>
    ELSE LET figure(parts) ==
                 IF Len(parts) >= 2
                 THEN <<[figure_number |-> strip_chars(parts[2], {"."}),
                         title |-> IF Len(parts) >= 3 THEN strip(parts[3]) ELSE <<>>]>>
                 ELSE <<>>
         IN  figure(split_ws(Head(figs), 1, 2)) \o figures_of(Tail(figs))

extract_figures(text) == figures_of(figure_findall(text, 1))

\* ------------------------------------------------------ process_pdf (main.py)

\* len(text.strip()) < 20
OcrThreshold == 20

\* ocr_text_from_fitz_page(page): the text the OCR engine recognises on the page
\* image, or the exception of rendering or recognising it.
ocr_text_from_fitz_page(page) == page.ocr

\* page.get_text("text"), "" when it raised.
text_layer(page) == IF page.get_text.raised THEN <<>> ELSE page.get_text.value

\* A faulty test of the text: the length is taken of the text as read, not of
\* the stripped text.
insufficient_unstripped(text) == text = <<>> \/ Len(text) < OcrThreshold

\* not text or len(text.strip()) < 20
insufficient(text) == text = <<>> \/ Len(strip(text)) < OcrThreshold

\* The text of one page: the text layer, and the OCR text when that is empty or
\* shorter than the threshold.
page_text(page) ==
    IF insufficient(text_layer(page))
    THEN ocr_text_from_fitz_page(page)
    ELSE Ok(text_layer(page))

\* The pages (1-based) on which process_pdf calls ocr_text_from_fitz_page, from
\* page page_num on: the loop ends with the first call that raises.
RECURSIVE ocr_calls(_, _)
ocr_calls(doc, page_num) ==
    IF page_num >= Len(doc) THEN {}
    ELSE IF ~insufficient(text_layer(doc[page_num + 1])) THEN ocr_calls(doc, page_num + 1)
    ELSE IF ocr_text_from_fitz_page(doc[page_num + 1]).raised THEN {page_num + 1}
    ELSE {page_num + 1} \cup ocr_calls(doc, page_num + 1)

\* A faulty page_records: the page's tables and figures go to the page's first
\* record only, the other records of the page get empty lists.
page_records_first_only(page, page_num, text) ==
    LET records(text_cleaned, clause_blocks, tables, figures) ==
            IF clause_blocks # <<>>
            THEN [k \in 1..Len(clause_blocks) |->
                     [clause_number |-> clause_blocks[k].clause_number,
                      clause_title  |-> clause_blocks[k].clause_title,
                      paragraphs    |-> clause_blocks[k].paragraphs,
                      page          |-> page_num + 1,
                      tables        |-> IF k = 1 THEN tables ELSE <<>>,
                      figures       |-> IF k = 1 THEN figures ELSE <<>>]]
            ELSE <<[clause_number |-> <<>>,
                    clause_title  |-> <<>>,
                    page          |-> page_num + 1,
                    paragraphs    |-> clean_paragraphs(text_cleaned),
                    tables        |-> tables,
                    figures       |-> figures]>>
        cleaned(text_cleaned) ==
            records(text_cleaned,
                    extract_clause_blocks(text_cleaned),
                    extract_tables_from_page(page.plumber),
                    extract_figures(text_cleaned))
    IN  cleaned(join(<<NL>>, clean_paragraphs(text)))

\* The records of the page with index page_num (0-based), its text being text.
page_records(page, page_num, text) ==
    LET records(text_cleaned, clause_blocks, tables, figures) ==
            IF clause_blocks # <<>>
            THEN [k \in 1..Len(clause_blocks) |->
                     [clause_number |-> clause_blocks[k].clause_number,
                      clause_title  |-> clause_blocks[k].clause_title,
                      paragraphs    |-> clause_blocks[k].paragraphs,
                      page          |-> page_num + 1,
                      tables        |-> tables,
                      figures       |-> figures]]
            ELSE <<[clause_number |-> <<>>,
                    clause_title  |-> <<>>,
                    page          |-> page_num + 1,
                    paragraphs    |-> clean_paragraphs(text_cleaned),
                    tables        |-> tables,
                    figures       |-> figures]>>
        cleaned(text_cleaned) ==
            records(text_cleaned,
                    extract_clause_blocks(text_cleaned),
                    extract_tables_from_page(page.plumber),
                    extract_figures(text_cleaned))
    IN  cleaned(join(<<NL>>, clean_paragraphs(text)))

\* The loop of process_pdf from page page_num on, structured_data being what the
\* pages before it gave: an exception of the OCR call is not caught and ends
\* process_pdf.
\* The loop of process_pdf putting each page's records before those of the
\* pages read earlier.
RECURSIVE process_pages_newest_first(_, _, _)
process_pages_newest_first(doc, page_num, structured_data) ==
    IF page_num >= Len(doc) THEN Ok(structured_data)
    ELSE LET page == doc[page_num + 1]
             read(text) ==
                 IF text.raised THEN text
                 ELSE process_pages_newest_first(doc, page_num + 1,
                          page_records(page, page_num, text.value) \o structured_data)
         IN  read(page_text(page))

RECURSIVE process_pages(_, _, _)
process_pages(doc, page_num, structured_data) ==
    IF page_num >= Len(doc) THEN Ok(structured_data)
    ELSE LET page == doc[page_num + 1]
             read(text) ==
                 IF text.raised THEN text
                 ELSE process_pages(doc, page_num + 1,
                          structured_data \o page_records(page, page_num, text.value))
         IN  read(page_text(page))

process_pdf(doc) == process_pages(doc, 0, <<>>)

\* -------------------------------------------------- the indexers' text blob

S_Clause == <<"C","l","a","u","s","e"," ">>

S_ColonSpace == <<":"," ">>

S_Table == <<"T","a","b","l","e",":"," ">>

S_Bar == <<" ","|"," ">>

S_Note == <<"N","o","t","e",":"," ">>

S_Figure == <<"F","i","g","u","r","e"," ">>

RECURSIVE flatten(_)
flatten(seqs) == IF seqs = <<>> THEN <<>> ELSE Head(seqs) \o flatten(Tail(seqs))

\* main.py, embed_and_store: the parts of one table. Every table record of
\* process_pdf has the keys title, columns, rows and notes.
main_table_parts(table) ==
    <<S_Table \o table.title>>
    \o <<join(S_Bar, table.columns)>>
    \o [k \in 1..Len(table.rows) |-> join(S_Bar, table.rows[k])]
    \o [k \in 1..Len(table.notes) |-> S_Note \o table.notes[k]]

figure_part(fig) == S_Figure \o fig.figure_number \o S_ColonSpace \o fig.title

clause_part(doc) ==
    IF doc.clause_number # <<>>
    THEN <<S_Clause \o doc.clause_number \o S_ColonSpace \o doc.clause_title>>
    ELSE <<>>

\* main.py, embed_and_store: full_text of one record.
main_full_text(doc) ==
    LET parts == clause_part(doc)
                 \o doc.paragraphs
                 \o flatten([k \in 1..Len(doc.tables) |-> main_table_parts(doc.tables[k])])
                 \o [k \in 1..Len(doc.figures) |-> figure_part(doc.figures[k])]
    IN  strip(join(<<" ">>, parts))

\* extract_embed_fastapi.py and embed.py: the parts of one table, the title line
\* only for a table that has a title.
checked_table_parts(table) ==
    (IF table.title # <<>> THEN <<S_Table \o table.title>> ELSE <<>>)
    \o <<join(S_Bar, table.columns)>>
    \o [k \in 1..Len(table.rows) |-> join(S_Bar, table.rows[k])]
    \o [k \in 1..Len(table.notes) |-> S_Note \o table.notes[k]]

\* [p.strip() for p in paragraphs if p.strip()]
RECURSIVE stripped_paragraphs(_)
stripped_paragraphs(paragraphs) ==
    IF paragraphs = <<>> THEN <<>>
    ELSE (IF strip(Head(paragraphs)) # <<>> THEN <<strip(Head(paragraphs))>> ELSE <<>>)
         \o stripped_paragraphs(Tail(paragraphs))

\* extract_embed_fastapi.py, embed_and_store: full_text of one record.
fastapi_full_text(doc) ==
    LET text_parts == clause_part(doc)
                      \o stripped_paragraphs(doc.paragraphs)
                      \o flatten([k \in 1..Len(doc.tables) |-> checked_table_parts(doc.tables[k])])
                      \o [k \in 1..Len(doc.figures) |-> figure_part(doc.figures[k])]
    IN  strip(join(<<" ">>, text_parts))

\* embed.py, the embedding loop: full_text of one record (the same parts).
embed_full_text(doc) ==
    LET text_parts == clause_part(doc)
                      \o stripped_paragraphs(doc.paragraphs)
                      \o flatten([k \in 1..Len(doc.tables) |-> checked_table_parts(doc.tables[k])])
                      \o [k \in 1..Len(doc.figures) |-> figure_part(doc.figures[k])]
    IN  strip(join(<<" ">>, text_parts))

\* metadata = {"page": ..., "clause": ..., "title": ...}
metadata_of(doc) ==
    [page |-> doc.page, clause |-> doc.clause_number, title |-> doc.clause_title]

\* ------------------------------------------------------------- the store

\* COLLECTION_NAME of extract_embed_fastapi.py and embed.py
COLLECTION_NAME == "nbc_data"

\* The collection names of the model: the fixed one, one a caller of main.py
\* names, and one that earlier writers left in the store directory.
Names == {COLLECTION_NAME, "other", "legacy"}

\* The stems of the JSON files under output/: embed.py reads nbc_full_data.json,
\* which extract_pdf.py writes, and so does an upload of nbc_full_data.pdf.
JSON_STEM == "nbc_full_data"

FileStems == {JSON_STEM}

\* How many identifiers uuid.uuid4() hands out in one behaviour.
MaxUuids == 2

Absent == [exists |-> FALSE, entries |-> <<>>]

NoFile == [exists |-> FALSE, data |-> <<>>]

\* Entries that an earlier writer left in the store: their metadata need not have
\* the keys this program writes.
LegacyEntries ==
    <<[id |-> -1, document |-> <<" ","o","l","d"," ","t","e","x","t"," ">>, metadata |-> [page |-> 12, clause |-> <<"4",".","1">>]],
      [id |-> -2, document |-> <<"n","o"," ","p","a","g","e">>, metadata |-> [title |-> <<"T">>]]>>

\* What the directory chroma_store may hold when the programs start.
InitialStores ==
    {[n \in Names |-> Absent],
     [n \in Names |-> IF n = "legacy" THEN [exists |-> TRUE, entries |-> LegacyEntries]
                      ELSE Absent]}

\* The i-th call record of the log of one handler.
Call(fn, arg, out) == [fn |-> fn, arg |-> arg, out |-> out]

\* ------------------------------------------------ embed_and_store (main.py)

\* The records that get an entry, full_text(doc) being their blob: the loop
\* skips a record whose blob is empty and goes on with the next one.
main_kept(data) == SelectSeq(data, LAMBDA doc : main_full_text(doc) # <<>>)

\* The records up to the first one whose blob is empty.
RECURSIVE main_kept_until_empty(_)
main_kept_until_empty(data) ==
    IF data = <<>> \/ main_full_text(Head(data)) = <<>> THEN <<>>
    ELSE <<Head(data)>> \o main_kept_until_empty(Tail(data))

\* A faulty embed_and_store: the loop ends (break) at the first record whose blob
\* is empty, the records after it get no entry.
main_embed_and_store_break(data, collection_name, colls, ids) ==
    LET stored(kept, added) ==
            [collections |-> [colls EXCEPT ![collection_name] =
                                 [exists |-> TRUE, entries |-> @.entries \o added]],
             uuids |-> ids + Len(kept),
             calls |-> <<Call("get_or_create_collection", collection_name, Ok(<<>>))>>
                       \o flatten([k \in 1..Len(kept) |->
                              <<Call("encode", added[k].document, Ok(<<>>)),
                                Call("add", added[k].id, Ok(<<>>))>>]),
             count |-> Len(kept)]
        entries_of(kept) ==
            stored(kept, [k \in 1..Len(kept) |->
                             [id       |-> ids + k,
                              document |-> main_full_text(kept[k]),
                              metadata |-> metadata_of(kept[k])]])
    IN  entries_of(main_kept_until_empty(data))

\* A faulty embed_and_store: the collection is created anew, the entries it held
\* are replaced by the ones of this call.
main_embed_and_store_replacing(data, collection_name, colls, ids) ==
    LET stored(kept, added) ==
            [collections |-> [colls EXCEPT ![collection_name] =
                                 [exists |-> TRUE, entries |-> added]],
             uuids |-> ids + Len(kept),
             calls |-> <<Call("get_or_create_collection", collection_name, Ok(<<>>))>>
                       \o flatten([k \in 1..Len(kept) |->
                              <<Call("encode", added[k].document, Ok(<<>>)),
                                Call("add", added[k].id, Ok(<<>>))>>]),
             count |-> Len(kept)]
        entries_of(kept) ==
            stored(kept, [k \in 1..Len(kept) |->
                             [id       |-> ids + k,
                              document |-> main_full_text(kept[k]),
                              metadata |-> metadata_of(kept[k])]])
    IN  entries_of(main_kept(data))

\* embed_and_store(data, collection_name) on the store colls, ids identifiers
\* having been handed out: the store after it, the calls it made and what it
\* returns.
main_embed_and_store(data, collection_name, colls, ids) ==
    LET stored(kept, added) ==
            [collections |-> [colls EXCEPT ![collection_name] =
                                 [exists |-> TRUE, entries |-> @.entries \o added]],
             uuids |-> ids + Len(kept),
             calls |-> <<Call("get_or_create_collection", collection_name, Ok(<<>>))>>
                       \o flatten([k \in 1..Len(kept) |->
                              <<Call("encode", added[k].document, Ok(<<>>)),
                                Call("add", added[k].id, Ok(<<>>))>>]),
             count |-> Len(kept)]
        entries_of(kept) ==
            stored(kept, [k \in 1..Len(kept) |->
                             [id       |-> ids + k,
                              document |-> main_full_text(kept[k]),
                              metadata |-> metadata_of(kept[k])]])
    IN  entries_of(main_kept(data))

\* --------------------------------- embed_and_store (extract_embed_fastapi.py)

fastapi_kept(data) == SelectSeq(data, LAMBDA doc : fastapi_full_text(doc) # <<>>)

\* The same loop; what it returns is collection.count().
fastapi_embed_and_store(data, collection_name, colls, ids) ==
    LET stored(kept, added) ==
            [collections |-> [colls EXCEPT ![collection_name] =
                                 [exists |-> TRUE, entries |-> @.entries \o added]],
             uuids |-> ids + Len(kept),
             calls |-> <<Call("get_or_create_collection", collection_name, Ok(<<>>))>>
                       \o flatten([k \in 1..Len(kept) |->
                              <<Call("encode", added[k].document, Ok(<<>>)),
                                Call("add", added[k].id, Ok(<<>>))>>]),
             count |-> Len(colls[collection_name].entries) + Len(kept)]
        entries_of(kept) ==
            stored(kept, [k \in 1..Len(kept) |->
                             [id       |-> ids + k,
                              document |-> fastapi_full_text(kept[k]),
                              metadata |-> metadata_of(kept[k])]])
    IN  entries_of(fastapi_kept(data))

\* ------------------------------------------------------------------ embed.py

embed_kept(data) == SelectSeq(data, LAMBDA doc : embed_full_text(doc) # <<>>)

\* Lines 21-25: the collection is deleted when it is there, and created.
embed_setup(colls) ==
    [collections |-> [colls EXCEPT ![COLLECTION_NAME] = [exists |-> TRUE, entries |-> <<>>]],
     calls |-> (IF colls[COLLECTION_NAME].exists
                THEN <<Call("delete_collection", COLLECTION_NAME, Ok(<<>>))>> ELSE <<>>)
               \o <<Call("get_or_create_collection", COLLECTION_NAME, Ok(<<>>))>>]

\* The script from the setup to the end: file is output/nbc_full_data.json. With
\* no such file open() raises after the setup.
embed_script(file, colls, ids) ==
    LET setup == embed_setup(colls)
        kept  == embed_kept(file.data)
        added == [k \in 1..Len(kept) |->
                     [id       |-> ids + k,
                      document |-> embed_full_text(kept[k]),
                      metadata |-> metadata_of(kept[k])]]
    IN  IF ~file.exists
        THEN [collections |-> setup.collections, uuids |-> ids, calls |-> setup.calls,
              resp |-> [status |-> 1, detail |-> [msg |-> "FileNotFoundError", arg |-> JSON_STEM]]]
        ELSE [collections |-> [setup.collections EXCEPT ![COLLECTION_NAME] =
                                  [exists |-> TRUE, entries |-> added]],
              uuids |-> ids + Len(kept),
              calls |-> setup.calls
                        \o flatten([k \in 1..Len(kept) |->
                               <<Call("encode", added[k].document, Ok(<<>>)),
                                 Call("add", added[k].id, Ok(<<>>))>>]),
              resp |-> [status |-> 0, stored |-> Len(added)]]

\* ----------------------------------------------------- chat_with_nbc (bot.py)

S_NoContext == <<"N","o"," ","r","e","l","e","v","a","n","t"," ","c","o","n","t","e","x","t"," ","f","o","u","n","d"," ","f","o","r"," ","y","o","u","r"," ","q","u","e","r","y",".">>

S_NA == <<"N","/","A">>

S_Unknown == <<"U","n","k","n","o","w","n">>

\* top_k: int = 20
DefaultTopK == 20

MAX_TOKENS == 700

\* The causes an external call may raise with.
Causes == {"io error", "timeout"}

\* A faulty clause_of: meta.get("clause") with no default, which the f-string
\* formats as "None".
clause_of_none(meta) ==
    IF "clause" \in DOMAIN meta THEN meta.clause ELSE <<"N","o","n","e">>

\* meta.get("clause", "N/A")
clause_of(meta) == IF "clause" \in DOMAIN meta THEN meta.clause ELSE S_NA

\* meta.get("page", "Unknown"), as the f-string formats it
page_of(meta) == IF "page" \in DOMAIN meta THEN str_of_int(meta.page) ELSE S_Unknown

\* f"[{i+1}] Page {page} | Clause {clause}:\n{chunk.strip()}\n\n", rank being i+1
context_segment(rank, chunk, meta) ==
    <<"[">> \o str_of_int(rank) \o <<"]"," ","P","a","g","e"," ">> \o page_of(meta) \o <<" ","|"," ","C","l","a","u","s","e"," ">>
    \o clause_of(meta) \o <<":", NL>> \o strip(chunk) \o <<NL, NL>>

\* The loop over enumerate(zip(documents, metadatas)).
context_of(documents, metadatas) ==
    LET n == IF Len(documents) <= Len(metadatas) THEN Len(documents) ELSE Len(metadatas)
    IN  flatten([k \in 1..n |-> context_segment(k, documents[k], metadatas[k])])

HttpError(status, msg, arg) == [status |-> status, detail |-> [msg |-> msg, arg |-> arg]]

\* A faulty chat_with_nbc: without the test of lines 78-82, the completion call
\* is made with an empty context.
chat_with_nbc_no_short_circuit(request, get_out, query_out, llm_out) ==
    LET get_call   == Call("get_collection", request.collection_id, get_out)
        enc_call   == Call("encode", request.query, Ok(<<>>))
        query_call == Call("query", request.top_k, query_out)
        called(llm_call) ==
            IF llm_out.raised
            THEN [resp  |-> HttpError(500, "LLM failed", llm_out.cause),
                  calls |-> <<get_call, enc_call, query_call, llm_call>>]
            ELSE [resp  |-> [status |-> 200, answer |-> strip(llm_out.value)],
                  calls |-> <<get_call, enc_call, query_call, llm_call>>]
        found(results) ==
            called(Call("complete",
                        [context    |-> context_of([k \in 1..Len(results) |-> results[k].document],
                                                   [k \in 1..Len(results) |-> results[k].metadata]),
                         question   |-> request.query,
                         max_tokens |-> MAX_TOKENS],
                        llm_out))
    IN  IF get_out.raised
        THEN [resp  |-> HttpError(404, "Collection not found", request.collection_id),
              calls |-> <<get_call>>]
        ELSE IF query_out.raised
        THEN [resp  |-> HttpError(500, "ChromaDB query failed", query_out.cause),
              calls |-> <<get_call, enc_call, query_call>>]
        ELSE found(query_out.value)

\* A faulty chat_with_nbc: a failure of the completion call is swallowed and an
\* empty answer returned.
chat_with_nbc_degraded(request, get_out, query_out, llm_out) ==
    LET get_call   == Call("get_collection", request.collection_id, get_out)
        enc_call   == Call("encode", request.query, Ok(<<>>))
        query_call == Call("query", request.top_k, query_out)
        called(llm_call) ==
            [resp  |-> [status |-> 200,
                        answer |-> IF llm_out.raised THEN <<>> ELSE strip(llm_out.value)],
             calls |-> <<get_call, enc_call, query_call, llm_call>>]
        found(results) ==
            IF results = <<>>
            THEN [resp  |-> [status |-> 200, answer |-> S_NoContext],
                  calls |-> <<get_call, enc_call, query_call>>]
            ELSE called(Call("complete",
                        [context    |-> context_of([k \in 1..Len(results) |-> results[k].document],
                                                   [k \in 1..Len(results) |-> results[k].metadata]),
                         question   |-> request.query,
                         max_tokens |-> MAX_TOKENS],
                        llm_out))
    IN  IF get_out.raised
        THEN [resp  |-> HttpError(404, "Collection not found", request.collection_id),
              calls |-> <<get_call>>]
        ELSE IF query_out.raised
        THEN [resp  |-> HttpError(500, "ChromaDB query failed", query_out.cause),
              calls |-> <<get_call, enc_call, query_call>>]
        ELSE found(query_out.value)

\* chat_with_nbc(req): get_out, query_out and llm_out are the outcomes of
\* chroma_client.get_collection, collection.query and
\* llm_client.chat.completions.create, each read only when the call is made.
chat_with_nbc(request, get_out, query_out, llm_out) ==
    LET get_call   == Call("get_collection", request.collection_id, get_out)
        enc_call   == Call("encode", request.query, Ok(<<>>))
        query_call == Call("query", request.top_k, query_out)
        results    == query_out.value
        documents  == [k \in 1..Len(results) |-> results[k].document]
        metadatas  == [k \in 1..Len(results) |-> results[k].metadata]
        prompt     == [context    |-> context_of(documents, metadatas),
                       question   |-> request.query,
                       max_tokens |-> MAX_TOKENS]
        llm_call   == Call("complete", prompt, llm_out)
    IN  IF get_out.raised
        THEN [resp  |-> HttpError(404, "Collection not found", request.collection_id),
              calls |-> <<get_call>>]
        ELSE IF query_out.raised
        THEN [resp  |-> HttpError(500, "ChromaDB query failed", query_out.cause),
              calls |-> <<get_call, enc_call, query_call>>]
        ELSE IF documents = <<>>
        THEN [resp  |-> [status |-> 200, answer |-> S_NoContext],
              calls |-> <<get_call, enc_call, query_call>>]
        ELSE IF llm_out.raised
        THEN [resp  |-> HttpError(500, "LLM failed", llm_out.cause),
              calls |-> <<get_call, enc_call, query_call, llm_call>>]
        ELSE [resp  |-> [status |-> 200, answer |-> strip(llm_out.value)],
              calls |-> <<get_call, enc_call, query_call, llm_call>>]

\* What chroma_client.get_collection(name) may do: raise for a collection that is
\* not there, and else give it or raise with a failure of the store.
GetOutcomes(colls, name) ==
    IF ~colls[name].exists THEN {Raised("does not exist")}
    ELSE {Ok(<<>>)} \cup {Raised(c) : c \in Causes}

\* The rankings of n of the entries: the store orders by similarity, and which
\* entries are nearest is the embedding model's matter.
Rankings(entries, n) ==
    {[k \in 1..n |-> entries[f[k]]] :
        f \in {g \in [1..n -> 1..Len(entries)] : \A a, b \in 1..n : a # b => g[a] # g[b]}}

\* What collection.query(query_embeddings, n_results) may do: raise, as it does
\* for n_results < 1, or give the n_results nearest entries, all of them when
\* there are fewer.
QueryOutcomes(coll, n_results) ==
    IF n_results < 1 THEN {Raised("n_results")}
    ELSE {Raised(c) : c \in Causes}
         \cup {Ok(r) : r \in Rankings(coll.entries,
                                      IF n_results <= Len(coll.entries) THEN n_results
                                      ELSE Len(coll.entries))}

\* The outcome of a call that the handler does not come to make.
NotCalled == Raised("not called")

\* What the completion call may do.
LlmOutcomes == {Ok(<<" ","C","l","a","u","s","e",":"," ","4",".","1"," ">> \o <<NL>>)} \cup {Raised(c) : c \in Causes}

Queries == {<<"e","x","i","t","s","?">>}

TopKs == {0, 1, DefaultTopK}

\* ------------------------------------------------------ the handlers (main.py)

\* USERNAME and PASSWORD of the environment, and the credentials of a request.
EnvUser == "admin"

EnvPass == "secret"

Credentials == {[username |-> "admin", password |-> "secret"],
                [username |-> "admin", password |-> "guess"]}

\* verify_user(credentials), the environment naming a user and a password.
verify_user(credentials) ==
    credentials.username = EnvUser /\ credentials.password = EnvPass

\* upload_pdf(file, collection_name) of main.py for an authorised user,
\* structured_data being what process_pdf returned or raised for the uploaded
\* document and files the JSON files under output/. An exception of process_pdf
\* leaves the handler before anything is written.
main_upload_pdf(filename, collection_name, structured_data, colls, files, ids) ==
    LET
        e == main_embed_and_store(structured_data.value, collection_name, colls, ids)
    IN  IF structured_data.raised
        THEN [collections |-> colls, output |-> files, uuids |-> ids, calls |-> <<>>,
              data |-> <<>>,
              resp |-> HttpError(500, "Internal Server Error", structured_data.cause)]
        ELSE [collections |-> e.collections,
              output |-> [files EXCEPT ![filename] =
                             [exists |-> TRUE, data |-> structured_data.value]],
              uuids |-> e.uuids, calls |-> e.calls, data |-> structured_data.value,
              resp |-> [status |-> 200, collection |-> collection_name,
                        count |-> e.count, output_json |-> filename]]

\* delete_chroma_collection answering 200 also for a collection that is not there.
delete_chroma_collection_lenient(collection_name, colls) ==
    [collections |-> [colls EXCEPT ![collection_name] = Absent],
     calls |-> <<Call("delete_collection", collection_name, Ok(<<>>))>>,
     resp |-> [status |-> 200, message |-> "Deleted collection"]]

\* delete_chroma_collection(collection_name): client.delete_collection raises for
\* a collection that is not there.
delete_chroma_collection(collection_name, colls) ==
    IF colls[collection_name].exists
    THEN [collections |-> [colls EXCEPT ![collection_name] = Absent],
          calls |-> <<Call("delete_collection", collection_name, Ok(<<>>))>>,
          resp |-> [status |-> 200, message |-> "Deleted collection"]]
    ELSE [collections |-> colls,
          calls |-> <<Call("delete_collection", collection_name, Raised("does not exist"))>>,
          resp |-> HttpError(404, "Failed to delete collection", "does not exist")]

\* ------------------------------------- the handlers (extract_embed_fastapi.py)

fastapi_upload_pdf(filename, structured_data, colls, files, ids) ==
    LET
        e == fastapi_embed_and_store(structured_data.value, COLLECTION_NAME, colls, ids)
    IN  IF structured_data.raised
        THEN [collections |-> colls, output |-> files, uuids |-> ids, calls |-> <<>>,
              data |-> <<>>,
              resp |-> HttpError(500, "Internal Server Error", structured_data.cause)]
        ELSE [collections |-> e.collections,
              output |-> [files EXCEPT ![filename] =
                             [exists |-> TRUE, data |-> structured_data.value]],
              uuids |-> e.uuids, calls |-> e.calls, data |-> structured_data.value,
              resp |-> [status |-> 200, collection |-> COLLECTION_NAME,
                        count |-> e.count, output_json |-> filename]]

\* update_pdf(file_id): re-indexes the records of output/<file_id>.json.
update_pdf(file_id, colls, files, ids) ==
    LET e == fastapi_embed_and_store(files[file_id].data, COLLECTION_NAME, colls, ids)
    IN  IF ~files[file_id].exists
        THEN [collections |-> colls, uuids |-> ids, calls |-> <<>>, data |-> <<>>,
              resp |-> [status |-> 404, error |-> "File not found"]]
        ELSE [collections |-> e.collections, uuids |-> e.uuids, calls |-> e.calls,
              data |-> files[file_id].data,
              resp |-> [status |-> 200, updated_count |-> e.count]]

\* delete_pdf(file_id): removes the JSON file when it is there; the entries stay.
delete_pdf(file_id, files) == [files EXCEPT ![file_id] = NoFile]

\* ------------------------------------------------------------- the documents

\* A page is what the three readers give for it: the text layer (fitz), the OCR
\* engine, and pdfplumber's text and raw tables. table_lines says for each raw
\* table at which line of the page's text (0-based) the table begins, which
\* pdfplumber knows from the table's bounding box and the code does not read.
NoTables == Ok([text |-> None, raw_tables |-> <<>>, table_lines |-> <<>>])

PageClauses ==
    [get_text |-> Ok(<<"1",".","1"," ","A","a","a","a","a","a">> \o <<NL>> \o <<"b","b">> \o <<NL>> \o <<"1",".","2"," ","B","b","b","b","b","b">>),
     ocr      |-> Ok(<<>>),
     plumber  |-> NoTables]

PageBlank == [get_text |-> Ok(<<>>), ocr |-> Ok(<<>>), plumber |-> NoTables]

PageOcrFails == [get_text |-> Raised("io error"), ocr |-> Raised("tesseract"), plumber |-> NoTables]

PageOcr ==
    [get_text |-> Ok(<<" ","s","c","a","n"," ">>),
     ocr      |-> Ok(<<"2",".","1"," ","C","c","c","c","c","c">> \o <<NL>> \o <<"d","d">>),
     plumber  |-> Raised("io error")]

PageWatermark ==
    [get_text |-> Ok(<<"S","u","p","p","l","y"," ","B","u","r","e","a","u"," ","a"," ","v","a","l","i","d"," ","u","p","t","o"," ","1">>), ocr |-> Ok(<<>>), plumber |-> NoTables]

PageTables ==
    [get_text |-> Ok(<<"T","a","b","l","e"," ","1"," ","L","o","a","d","s">> \o <<NL>> \o <<"F","i","g","."," ","2"," ","P","l","a","n"," ","o","f"," ","e","x","i","t","s">>),
     ocr      |-> Ok(<<>>),
     plumber  |-> Ok([text |-> Str(<<"T","a","b","l","e"," ","1"," ","L","o","a","d","s">> \o <<NL>> \o <<"a"," ","b">>),
                      raw_tables |-> << <<<<Str(<<"a">>), None>>, <<Str(<<" ","b">>), Str(<<"c">>)>>>>,
                                        <<<<Str(<<"x">>)>>>>,
                                        <<<<Str(<<"h">>)>>, <<Str(<<"r">>)>>>> >>,
                      table_lines |-> <<1, 1, 2>>])]

PageClausesTables ==
    [get_text |-> Ok(<<"3",".","1"," ","D","d","d","d","d","d">> \o <<NL>> \o <<"F","i","g","u","r","e"," ","4"," ","S","t","a","i","r">> \o <<NL>> \o <<"3",".","2"," ","E","e","e","e","e","e">>),
     ocr      |-> Ok(<<>>),
     plumber  |-> Ok([text |-> None,
                      raw_tables |-> << <<<<Str(<<"h">>)>>, <<Str(<<"r">>)>>>>,
                                        <<<<Str(<<"k">>)>>, <<Str(<<"v">>)>>>> >>,
                      table_lines |-> <<0, 0>>])]

\* 19 characters between the white space, 23 in all
PageText19 ==
    [get_text |-> Ok(<<" "," ","5",".","1"," ","G","g","g","g","g","g","g","g","g","g","g","g","g","g","g"," "," ">>),
     ocr      |-> Ok(<<"6",".","1"," ","H","h","h","h","h","h">>),
     plumber  |-> NoTables]

\* 20 characters between the white space
PageText20 ==
    [get_text |-> Ok(<<" ","5",".","1"," ","G","g","g","g","g","g","g","g","g","g","g","g","g","g","g","g"," ">>),
     ocr      |-> Ok(<<"6",".","1"," ","H","h","h","h","h","h">>),
     plumber  |-> NoTables]

Pages == {PageClauses, PageBlank, PageOcrFails, PageOcr, PageWatermark, PageTables,
          PageClausesTables, PageText19, PageText20}

\* The longest document of the PDF pipeline's specification.
MaxPages == 2

Docs == UNION {[1..n -> Pages] : n \in 1..MaxPages}

\* The documents that are uploaded and extracted.
UploadDocs == {<<PageClauses>>, <<PageBlank>>, <<PageBlank, PageOcr>>,
               <<PageClauses, PageOcrFails>>}

IngestNames == {COLLECTION_NAME, "other"}

\* process_pdf of each of these documents, computed once.
Processed == [doc \in UploadDocs |-> process_pdf(doc)]

\* ------------------------------------------------------------------ the state

VARIABLES
    collections,   \* the store: for each name, whether the collection is there, and its entries
    output,        \* the JSON files under output/
    uuids,         \* how many identifiers uuid.uuid4() has handed out
    req,           \* the last request (or script run)
    resp,          \* its response
    calls,         \* the calls it made to the store and the models, in order
    pdf_doc,       \* the document process_pdf is applied to
    pdf_done,      \* whether it has been
    pdf_result,    \* what it returned or raised
    pdf_ocr_calls, \* the pages for which it called ocr_text_from_fitz_page
    clause_text,   \* the text extract_clause_blocks is applied to
    clause_done,   \* whether it has been
    text_matches,  \* list(clause_pattern.finditer(text))
    text_blocks    \* what extract_clause_blocks returned

service_vars == <<collections, output, uuids, req, resp, calls>>

pdf_vars == <<pdf_doc, pdf_done, pdf_result, pdf_ocr_calls>>

text_vars == <<clause_text, clause_done, text_matches, text_blocks>>

vars == <<collections, output, uuids, req, resp, calls, pdf_doc, pdf_done, pdf_result,
          pdf_ocr_calls, clause_text, clause_done, text_matches, text_blocks>>

ServiceInit ==
    /\ collections \in InitialStores
    /\ output = [f \in FileStems |-> NoFile]
    /\ uuids = 0
    /\ req = [op |-> "start"]
    /\ resp = [status |-> 0]
    /\ calls = <<>>

PdfIdle ==
    /\ pdf_doc = <<>>
    /\ pdf_done = FALSE
    /\ pdf_result = Ok(<<>>)
    /\ pdf_ocr_calls = {}

TextIdle ==
    /\ clause_text = <<>>
    /\ clause_done = FALSE
    /\ text_matches = <<>>
    /\ text_blocks = <<>>

Init == ServiceInit /\ PdfIdle /\ TextIdle

Unauthorized == HttpError(401, "Invalid credentials", "")

\* POST /upload_pdf of main.py
UploadPdf ==
    /\ UNCHANGED <<pdf_vars, text_vars>>
    /\ \E filename \in FileStems, collection_name \in IngestNames, doc \in UploadDocs,
          credentials \in Credentials :
           LET r == main_upload_pdf(filename, collection_name, Processed[doc],
                                    collections, output, uuids)
           IN  IF ~verify_user(credentials)
               THEN /\ req' = [op |-> "upload_pdf", authorized |-> FALSE]
                    /\ resp' = Unauthorized
                    /\ calls' = <<>>
                    /\ UNCHANGED <<collections, output, uuids>>
               ELSE /\ r.uuids <= MaxUuids
                    /\ req' = [op |-> "upload_pdf", authorized |-> TRUE,
                               collection_name |-> collection_name, data |-> r.data]
                    /\ resp' = r.resp
                    /\ calls' = r.calls
                    /\ collections' = r.collections
                    /\ output' = r.output
                    /\ uuids' = r.uuids

\* DELETE /delete_collection/{collection_name} of main.py
DeleteChromaCollection ==
    /\ UNCHANGED <<pdf_vars, text_vars>>
    /\ \E collection_name \in Names, credentials \in Credentials :
           LET r == delete_chroma_collection(collection_name, collections)
           IN  IF ~verify_user(credentials)
               THEN /\ req' = [op |-> "delete_collection", authorized |-> FALSE]
                    /\ resp' = Unauthorized
                    /\ calls' = <<>>
                    /\ UNCHANGED <<collections, output, uuids>>
               ELSE /\ req' = [op |-> "delete_collection", authorized |-> TRUE,
                               collection_name |-> collection_name]
                    /\ resp' = r.resp
                    /\ calls' = r.calls
                    /\ collections' = r.collections
                    /\ UNCHANGED <<output, uuids>>

\* POST /upload_pdf of extract_embed_fastapi.py
FastapiUploadPdf ==
    /\ UNCHANGED <<pdf_vars, text_vars>>
    /\ \E filename \in FileStems, doc \in UploadDocs :
           LET r == fastapi_upload_pdf(filename, Processed[doc], collections, output, uuids)
           IN  /\ r.uuids <= MaxUuids
               /\ req' = [op |-> "fastapi_upload_pdf", authorized |-> TRUE,
                          collection_name |-> COLLECTION_NAME, data |-> r.data]
               /\ resp' = r.resp
               /\ calls' = r.calls
               /\ collections' = r.collections
               /\ output' = r.output
               /\ uuids' = r.uuids

\* PUT /update_pdf/{file_id} of extract_embed_fastapi.py
UpdatePdf ==
    /\ UNCHANGED <<pdf_vars, text_vars>>
    /\ \E file_id \in FileStems :
           LET r == update_pdf(file_id, collections, output, uuids)
           IN  /\ r.uuids <= MaxUuids
               /\ req' = [op |-> "update_pdf", authorized |-> TRUE,
                          collection_name |-> COLLECTION_NAME, data |-> r.data]
               /\ resp' = r.resp
               /\ calls' = r.calls
               /\ collections' = r.collections
               /\ uuids' = r.uuids
               /\ UNCHANGED output

\* DELETE /delete_pdf/{file_id} of extract_embed_fastapi.py
DeletePdf ==
    /\ UNCHANGED <<pdf_vars, text_vars>>
    /\ \E file_id \in FileStems :
           /\ req' = [op |-> "delete_pdf", authorized |-> TRUE]
           /\ resp' = [status |-> 200, message |-> "Deleted JSON"]
           /\ calls' = <<>>
           /\ output' = delete_pdf(file_id, output)
           /\ UNCHANGED <<collections, uuids>>

\* python extract_pdf.py: process_pdf, then the JSON file. An exception ends the
\* script before the file is written.
ExtractPdfScript ==
    /\ UNCHANGED <<pdf_vars, text_vars>>
    /\ \E doc \in UploadDocs :
           LET structured == Processed[doc]
           IN  /\ req' = [op |-> "extract_pdf", authorized |-> TRUE]
               /\ calls' = <<>>
               /\ IF structured.raised
                  THEN /\ resp' = [status |-> 1, detail |-> [msg |-> "Traceback", arg |-> structured.cause]]
                       /\ UNCHANGED output
                  ELSE /\ resp' = [status |-> 0, stored |-> Len(structured.value)]
                       /\ output' = [output EXCEPT ![JSON_STEM] =
                                        [exists |-> TRUE, data |-> structured.value]]
               /\ UNCHANGED <<collections, uuids>>

\* python embed.py
EmbedScript ==
    /\ UNCHANGED <<pdf_vars, text_vars>>
    /\ LET r == embed_script(output[JSON_STEM], collections, uuids)
       IN  /\ r.uuids <= MaxUuids
           /\ req' = [op |-> "embed", authorized |-> TRUE,
                      collection_name |-> COLLECTION_NAME, data |-> output[JSON_STEM].data]
           /\ resp' = r.resp
           /\ calls' = r.calls
           /\ collections' = r.collections
           /\ uuids' = r.uuids
           /\ UNCHANGED output

\* POST /chat of bot.py
ChatWithNbc ==
    /\ UNCHANGED <<pdf_vars, text_vars>>
    /\ \E collection_id \in Names, query \in Queries, top_k \in TopKs :
           \E get_out \in GetOutcomes(collections, collection_id) :
           \E query_out \in IF get_out.raised THEN {NotCalled}
                             ELSE QueryOutcomes(collections[collection_id], top_k) :
           \E llm_out \in IF query_out.raised \/ query_out.value = <<>> THEN {NotCalled}
                           ELSE LlmOutcomes :
               LET request == [op |-> "chat", collection_id |-> collection_id,
                               query |-> query, top_k |-> top_k]
                   r == chat_with_nbc(request, get_out, query_out, llm_out)
               IN  /\ req' = request
                   /\ resp' = r.resp
                   /\ calls' = r.calls
                   /\ UNCHANGED <<collections, output, uuids>>

Next ==
    \/ UploadPdf
    \/ DeleteChromaCollection
    \/ FastapiUploadPdf
    \/ UpdatePdf
    \/ DeletePdf
    \/ ExtractPdfScript
    \/ EmbedScript
    \/ ChatWithNbc

Spec == Init /\ [][Next]_vars

\* ------------------------------------------- process_pdf on its own (SpecPdf)

PdfInit ==
    /\ collections = [n \in Names |-> Absent]
    /\ output = [f \in FileStems |-> NoFile]
    /\ uuids = 0
    /\ req = [op |-> "start"]
    /\ resp = [status |-> 0]
    /\ calls = <<>>
    /\ pdf_doc \in Docs
    /\ pdf_done = FALSE
    /\ pdf_result = Ok(<<>>)
    /\ pdf_ocr_calls = {}
    /\ TextIdle

ProcessPdf ==
    /\ ~pdf_done
    /\ pdf_done' = TRUE
    /\ pdf_result' = process_pdf(pdf_doc)
    /\ pdf_ocr_calls' = ocr_calls(pdf_doc, 0)
    /\ UNCHANGED pdf_doc
    /\ UNCHANGED <<service_vars, text_vars>>

PdfNext == ProcessPdf

SpecPdf == PdfInit /\ [][PdfNext]_vars

\* --------------------------------- extract_clause_blocks on its own (SpecText)

\* The pieces that the texts are made of.
Tokens ==
    {<<"1">>, <<".","3">>, <<" ">>, <<NL>>, <<"E","x","i","t","s">>, <<"x">>,
     <<"1","2",".","3"," ","E","x","i","t","s","x">>}

\* The most pieces in a text.
MaxTokens == 4

\* Texts of the specification's examples, and texts with several markers.
SampleTexts ==
    {<<"4",".","1"," ","E","x","i","t","s">>,
     <<"4",".","1"," ","E","x","i","t","s",NL,"4",".","2"," ","M","e","a","n","s"," ","o","f">>,
     <<"1","2",".","3",".","4"," ","F","i","r","e"," ","S","a","f","e","t","y"," ","P","r","o","v","i","s","i","o","n","s">>,
     <<"1","2","3"," ","S","o","m","e","t","h","i","n","g"," ","H","e","r","e">>,
     <<"1","2","3",".","4"," ","S","o","m","e","t","h","i","n","g">>,
     <<"a",NL,"4",".","1"," ","F","i","r","e"," ","E","x","i","t","s",NL," ","t","w","o"," ",NL,NL,"S","u","p","p","l","y"," ","B","u","r","e","a","u"," ","v","a","l","i","d"," ","u","p","t","o",NL,"e","n","d",NL,"4",".","2",NL,"M","e","a","n","s"," ","o","f"," ","5",".","1"," ","E","s","c","a","p","e",NL,"p","a","t","h">>}

Texts ==
    SampleTexts
    \cup UNION {{flatten(f) : f \in [1..n -> Tokens]} : n \in 0..MaxTokens}

TextInit ==
    /\ collections = [n \in Names |-> Absent]
    /\ output = [f \in FileStems |-> NoFile]
    /\ uuids = 0
    /\ req = [op |-> "start"]
    /\ resp = [status |-> 0]
    /\ calls = <<>>
    /\ PdfIdle
    /\ clause_text \in Texts
    /\ clause_done = FALSE
    /\ text_matches = <<>>
    /\ text_blocks = <<>>

ExtractClauseBlocks ==
    /\ ~clause_done
    /\ clause_done' = TRUE
    /\ text_matches' = clause_finditer(clause_text, 1)
    /\ text_blocks' = extract_clause_blocks(clause_text)
    /\ UNCHANGED clause_text
    /\ UNCHANGED <<service_vars, pdf_vars>>

TextNext == ExtractClauseBlocks

SpecText == TextInit /\ [][TextNext]_vars

\* ----------------------------------------------------------- the properties

\* The calls to fn that the last request made, in order.
CallsTo(fn) == SelectSeq(calls, LAMBDA c : c.fn = fn)

\* Whether a is an initial part of b.
IsPrefix(a, b) == Len(a) <= Len(b) /\ SubSeq(b, 1, Len(a)) = a

\* The requests that run an indexer, and those that run embed_and_store.
IngestOps == {"upload_pdf", "fastapi_upload_pdf", "update_pdf", "embed"}

EmbedAndStoreOps == {"upload_pdf", "fastapi_upload_pdf", "update_pdf"}

\* The blob that the indexer of request op builds for a record.
blob_of(op, doc) ==
    IF op = "upload_pdf" THEN main_full_text(doc)
    ELSE IF op = "embed" THEN embed_full_text(doc)
    ELSE fastapi_full_text(doc)

\* The last request ran an indexer's loop over req.data to its end.
IngestDone ==
    /\ req.op \in IngestOps
    /\ req.authorized
    /\ resp.status \in {0, 200}

ChatDone == req.op = "chat"

\* C1: a query whose store query call returned zero neighbours (the collection
\* being there) returns the fixed "No relevant context found" answer, and makes
\* no completion call.
C1_ZeroNeighboursShortCircuit ==
    (/\ ChatDone
     /\ Len(CallsTo("query")) = 1
     /\ ~CallsTo("query")[1].out.raised
     /\ CallsTo("query")[1].out.value = <<>>)
    => /\ resp = [status |-> 200,
                  answer |-> <<"N","o"," ","r","e","l","e","v","a","n","t"," ","c","o","n","t","e","x","t"," ","f","o","u","n","d"," ","f","o","r"," ","y","o","u","r"," ","q","u","e","r","y",".">>]
       /\ Len(CallsTo("complete")) = 0

\* A query for at least one neighbour against a collection that is there and
\* empty got its answer.
C1_Witness ==
    /\ ChatDone
    /\ req.top_k >= 1
    /\ collections[req.collection_id].exists
    /\ collections[req.collection_id].entries = <<>>
    /\ Len(CallsTo("query")) = 1
    /\ ~CallsTo("query")[1].out.raised
    /\ resp.status = 200

\* The entries of collections n that a step of an indexer leaves in place: those
\* that were there are the first ones after it, and the collection is still there.
EntriesKept(n) ==
    /\ collections[n].exists => collections'[n].exists
    /\ IsPrefix(collections[n].entries, collections'[n].entries)

\* The entries after position from of collection n after the step have
\* identifiers that no entry had before it, each its own.
EntriesFresh(n, from) ==
    \A k \in (from + 1)..Len(collections'[n].entries) :
        /\ \A m \in Names : \A j \in 1..Len(collections[m].entries) :
               collections[m].entries[j].id # collections'[n].entries[k].id
        /\ \A j \in (from + 1)..Len(collections'[n].entries) :
               j # k => collections'[n].entries[j].id # collections'[n].entries[k].id

\* C2 (as amended): a run of embed_and_store (upload, re-index) keeps every entry
\* of every collection in place and unchanged and appends one entry with a fresh
\* identifier for each add call; a run of embed.py does so for every collection
\* but nbc_data, which it deletes and creates anew: after it nbc_data holds only
\* the entries of this run.
C2_AppendOnlyButEmbedScript ==
    [][(req'.op \in IngestOps /\ req'.authorized)
       => IF req'.op \in EmbedAndStoreOps
          THEN /\ \A n \in Names : EntriesKept(n) /\ EntriesFresh(n, Len(collections[n].entries))
               /\ resp'.status = 200 =>
                      Len(collections'[req'.collection_name].entries)
                          = Len(collections[req'.collection_name].entries)
                            + Cardinality({k \in 1..Len(calls') : calls'[k].fn = "add"})
          ELSE /\ \A n \in Names \ {COLLECTION_NAME} : collections'[n] = collections[n]
               /\ collections'[COLLECTION_NAME].exists
               /\ EntriesFresh(COLLECTION_NAME, 0)
               /\ Len(collections'[COLLECTION_NAME].entries)
                      = Cardinality({k \in 1..Len(calls') : calls'[k].fn = "add"})]_vars

\* A re-index put a second entry with the same text next to the one that the
\* upload had written, under another identifier.
C2_Witness ==
    /\ req.op = "update_pdf"
    /\ resp.status = 200
    /\ \E i, j \in 1..Len(collections[COLLECTION_NAME].entries) :
           /\ i < j
           /\ collections[COLLECTION_NAME].entries[i].document
                  = collections[COLLECTION_NAME].entries[j].document
           /\ collections[COLLECTION_NAME].entries[i].id
                  # collections[COLLECTION_NAME].entries[j].id

\* C2 as stated: every run of an indexer, embed.py among them, keeps the entries
\* that its target collection held.
C2_AppendOnlyEveryEntryPoint ==
    [][(req'.op \in IngestOps /\ req'.authorized)
       => \A n \in Names : EntriesKept(n)]_vars

\* C3 as stated: what embed_and_store returns, which the response reports, is
\* the number of entries that the call wrote.
C3_ReturnsEntriesWritten ==
    (req.op \in EmbedAndStoreOps /\ req.authorized /\ resp.status = 200)
    => (IF req.op = "update_pdf" THEN resp.updated_count ELSE resp.count)
           = Len(CallsTo("add"))

\* The positions of the records of data whose blob is not empty, in order.
NonEmptyBlobs(op, data) ==
    SelectSeq([i \in 1..Len(data) |-> i], LAMBDA i : blob_of(op, data[i]) # <<>>)

\* C4: the indexer makes one embedding call and one add call for each record
\* whose blob is not empty, in the records' order, and none for the others; the
\* entries it appends are these records' blobs with the metadata page, clause
\* and title of the record.
C4_EmptyBlobSkipped ==
    IngestDone =>
        LET kept    == NonEmptyBlobs(req.op, req.data)
            entries == collections[req.collection_name].entries
            base    == Len(entries) - Len(kept)
        IN  /\ Len(CallsTo("encode")) = Len(kept)
            /\ Len(CallsTo("add")) = Len(kept)
            /\ base >= 0
            /\ \A k \in 1..Len(kept) :
                   /\ CallsTo("encode")[k].arg = blob_of(req.op, req.data[kept[k]])
                   /\ CallsTo("add")[k].arg = entries[base + k].id
                   /\ entries[base + k].document = blob_of(req.op, req.data[kept[k]])
                   /\ entries[base + k].metadata
                          = [page   |-> req.data[kept[k]].page,
                             clause |-> req.data[kept[k]].clause_number,
                             title  |-> req.data[kept[k]].clause_title]

\* An upload through main.py whose first record has an empty blob and whose
\* second record got its entry.
C4_Witness ==
    /\ IngestDone
    /\ req.op = "upload_pdf"
    /\ Len(req.data) = 2
    /\ main_full_text(req.data[1]) = <<>>
    /\ main_full_text(req.data[2]) # <<>>
    /\ Len(CallsTo("add")) = 1
    /\ resp.count = 1

\* C5 as stated: a query naming a collection that is not there gets 404 after the
\* get_collection call alone, and 404 is the answer only when the collection is
\* not there.
C5_NotFoundOnlyWhenMissing ==
    ChatDone =>
        /\ ~collections[req.collection_id].exists
               => /\ resp = HttpError(404, "Collection not found", req.collection_id)
                  /\ Len(calls) = 1
                  /\ calls[1].fn = "get_collection"
        /\ resp.status = 404 => ~collections[req.collection_id].exists

\* C6: a query makes at most one store query call and at most one completion
\* call; when the store query call raised, the response is the error 500
\* "ChromaDB query failed" with the cause and no completion call was made; when
\* the completion call raised, it is the error 500 "LLM failed" with the cause.
C6_FailuresSurfaceOnce ==
    ChatDone =>
        /\ Len(CallsTo("query")) <= 1
        /\ Len(CallsTo("complete")) <= 1
        /\ (Len(CallsTo("query")) = 1 /\ CallsTo("query")[1].out.raised)
               => /\ resp = [status |-> 500,
                             detail |-> [msg |-> "ChromaDB query failed",
                                         arg |-> CallsTo("query")[1].out.cause]]
                  /\ Len(CallsTo("complete")) = 0
        /\ (Len(CallsTo("complete")) = 1 /\ CallsTo("complete")[1].out.raised)
               => resp = [status |-> 500,
                          detail |-> [msg |-> "LLM failed",
                                      arg |-> CallsTo("complete")[1].out.cause]]

\* A query whose completion call raised with a timeout, after a store query that
\* gave neighbours.
C6_Witness ==
    /\ ChatDone
    /\ Len(CallsTo("query")) = 1
    /\ ~CallsTo("query")[1].out.raised
    /\ Len(CallsTo("complete")) = 1
    /\ CallsTo("complete")[1].out.raised
    /\ CallsTo("complete")[1].out.cause = "timeout"
    /\ resp.status = 500

\* The heading of segment i for a neighbour with metadata meta.
SegmentHeading(i, meta) ==
    <<"[">> \o str_of_int(i) \o <<"]"," ","P","a","g","e"," ">>
    \o (IF "page" \in DOMAIN meta THEN str_of_int(meta.page)
        ELSE <<"U","n","k","n","o","w","n">>)
    \o <<" ","|"," ","C","l","a","u","s","e"," ">>
    \o (IF "clause" \in DOMAIN meta THEN meta.clause ELSE <<"N","/","A">>)
    \o <<":">>

\* C7: when the store query gave n >= 1 neighbours, the completion call is made
\* and its context is n segments in the order of the neighbours, segment i being
\* the heading "[i] Page <page> | Clause <clause>:" of the i-th neighbour's
\* metadata ("Unknown" and "N/A" for a key it lacks), a new line, the neighbour's
\* text stripped, and two new lines.
C7_ContextSegments ==
    (/\ ChatDone
     /\ Len(CallsTo("query")) = 1
     /\ ~CallsTo("query")[1].out.raised
     /\ CallsTo("query")[1].out.value # <<>>)
    => LET found == CallsTo("query")[1].out.value
       IN  /\ Len(CallsTo("complete")) = 1
           /\ CallsTo("complete")[1].arg.context
                  = flatten([i \in 1..Len(found) |->
                                SegmentHeading(i, found[i].metadata) \o <<NL>>
                                \o strip(found[i].document) \o <<NL, NL>>])

\* A query that got two neighbours, the first with neither page nor clause in
\* its metadata and the second with page 12 and clause 4.1.
C7_Witness ==
    /\ ChatDone
    /\ Len(CallsTo("query")) = 1
    /\ ~CallsTo("query")[1].out.raised
    /\ Len(CallsTo("query")[1].out.value) = 2
    /\ DOMAIN CallsTo("query")[1].out.value[1].metadata = {"title"}
    /\ Len(CallsTo("complete")) = 1
    /\ IsPrefix(<<"[","1","]"," ","P","a","g","e"," ","U","n","k","n","o","w","n"," ","|"," ","C","l","a","u","s","e"," ","N","/","A",":","\n","n","o"," ","p","a","g","e","\n","\n","[","2","]"," ","P","a","g","e"," ","1","2"," ","|"," ","C","l","a","u","s","e"," ","4",".","1",":","\n","o","l","d">>,
                CallsTo("complete")[1].arg.context)

\* C8 as stated: process_pdf returns for every document, and what it returns
\* has the records of every page.
C8_PageFailureIsolated ==
    pdf_done =>
        /\ ~pdf_result.raised
        /\ \A p \in 1..Len(pdf_doc) :
               \E k \in 1..Len(pdf_result.value) : pdf_result.value[k].page = p

\* C9 as stated: an upload of a document none of whose records has a non-empty
\* blob does not succeed, and writes no entry.
C9_ExtractionEmptyIsFatal ==
    (/\ req.op \in {"upload_pdf", "fastapi_upload_pdf"}
     /\ req.authorized
     /\ \A i \in 1..Len(req.data) : blob_of(req.op, req.data[i]) = <<>>)
    => /\ resp.status # 200
       /\ Len(CallsTo("add")) = 0

\* C10: any two records that process_pdf returns with the same page have the
\* same tables and the same figures.
C10_SamePageSameTablesFigures ==
    (pdf_done /\ ~pdf_result.raised) =>
        \A i, j \in 1..Len(pdf_result.value) :
            pdf_result.value[i].page = pdf_result.value[j].page
            => /\ pdf_result.value[i].tables = pdf_result.value[j].tables
               /\ pdf_result.value[i].figures = pdf_result.value[j].figures

\* process_pdf returned two records of one page that has tables and figures.
C10_Witness ==
    /\ pdf_done
    /\ ~pdf_result.raised
    /\ \E i, j \in 1..Len(pdf_result.value) :
           /\ i # j
           /\ pdf_result.value[i].page = pdf_result.value[j].page
           /\ pdf_result.value[i].tables # <<>>
           /\ pdf_result.value[i].figures # <<>>

\* The lines of the page as extract_tables_from_page reads them.
plumber_lines(plumber) ==
    IF Truthy(plumber.value.text) THEN split(plumber.value.text.str, NL) ELSE <<>>

\* Table detection on the page raises: pdfplumber does, or the title lookup of a
\* table with a header and a row does.
TableDetectionRaises(plumber) ==
    \/ plumber.raised
    \/ \E idx \in 0..(Len(plumber.value.raw_tables) - 1) :
           /\ Len(plumber.value.raw_tables[idx + 1]) >= 2
           /\ find_table_title(plumber_lines(plumber), idx).raised

\* C11 as stated: the records of a page on which table detection raised have no
\* table, and process_pdf returns.
C11_TableFailureEmptiesPage ==
    (pdf_done /\ \A p \in 1..Len(pdf_doc) : ~page_text(pdf_doc[p]).raised)
    => /\ ~pdf_result.raised
       /\ \A k \in 1..Len(pdf_result.value) :
              TableDetectionRaises(pdf_doc[pdf_result.value[k].page].plumber)
              => pdf_result.value[k].tables = <<>>

\* The raw tables of a page that have a header and a row, by their index
\* (0-based) among the raw tables, in order.
KeptTableIndices(raw_tables) ==
    SelectSeq([i \in 1..Len(raw_tables) |-> i - 1],
              LAMBDA idx : Len(raw_tables[idx + 1]) >= 2)

\* The title that the lines above line pos give: the nearest of the up to 4
\* lines before pos that is "Table <number>", and "Auto-detected Table" when
\* none of them is.
TitleAbove(lines, pos) ==
    LET lo    == IF pos - 4 > 0 THEN pos - 4 ELSE 0
        hi    == IF pos - 1 < Len(lines) - 1 THEN pos - 1 ELSE Len(lines) - 1
        found == {i \in lo..hi : is_table_title(strip(lines[i + 1]))}
    IN  IF found = {} THEN <<"A","u","t","o","-","d","e","t","e","c","t","e","d"," ","T","a","b","l","e">>
        ELSE strip(lines[(CHOOSE i \in found : \A j \in found : j <= i) + 1])

\* C12 as stated: on a page whose table detection does not raise, the title of
\* each kept table is the one that the up to 4 lines above the table's place in
\* the page's lines give.
C12_TitleFromLinesAboveTable ==
    (pdf_done /\ ~pdf_result.raised) =>
        \A k \in 1..Len(pdf_result.value) :
            LET plumber == pdf_doc[pdf_result.value[k].page].plumber
                tables  == pdf_result.value[k].tables
            IN  ~TableDetectionRaises(plumber) =>
                    /\ Len(tables) = Len(KeptTableIndices(plumber.value.raw_tables))
                    /\ \A j \in 1..Len(tables) :
                           tables[j].title
                               = TitleAbove(plumber_lines(plumber),
                                            plumber.value.table_lines[
                                                KeptTableIndices(plumber.value.raw_tables)[j] + 1])

\* The records that process_pdf returned for page p.
RecordsOfPage(p) == SelectSeq(pdf_result.value, LAMBDA r : r.page = p)

\* process_pdf came to page p: no OCR call for a page before it raised.
PageReached(p) ==
    \A q \in 1..(p - 1) : q \in pdf_ocr_calls => ~pdf_doc[q].ocr.raised

\* C13: for every page that process_pdf comes to, OCR is called exactly when
\* reading the text layer raised or gave a text of fewer than 20 characters
\* after stripping; when it is not called and process_pdf returns, the page's
\* records are those of the text-layer text.
C13_OcrIffTextInsufficient ==
    pdf_done =>
        \A p \in 1..Len(pdf_doc) :
            /\ PageReached(p) =>
                   (p \in pdf_ocr_calls
                    <=> \/ pdf_doc[p].get_text.raised
                        \/ Len(strip(pdf_doc[p].get_text.value)) < 20)
            /\ ~PageReached(p) => p \notin pdf_ocr_calls
            /\ (~pdf_result.raised /\ p \notin pdf_ocr_calls)
                   => RecordsOfPage(p)
                          = page_records(pdf_doc[p], p - 1, pdf_doc[p].get_text.value)

\* A document with a page of 19 stripped characters, for which OCR was called,
\* and a page of 20, for which it was not and whose clause is the text layer's.
C13_Witness ==
    /\ pdf_done
    /\ ~pdf_result.raised
    /\ Len(pdf_doc) = 2
    /\ Len(strip(pdf_doc[1].get_text.value)) = 19
    /\ Len(pdf_doc[1].get_text.value) > 20
    /\ Len(strip(pdf_doc[2].get_text.value)) = 20
    /\ pdf_ocr_calls = {1}
    /\ Len(pdf_result.value) = 2
    /\ pdf_result.value[1].clause_number = <<"6",".","1">>
    /\ pdf_result.value[2].clause_number = <<"5",".","1">>

\* t[a..b-1] is one or more groups of a "." and digits.
IsGroups(t, a, b) ==
    /\ a < b
    /\ t[a] = "."
    /\ t[b - 1] \in Digits
    /\ \A k \in a..(b - 1) : t[k] = "." \/ t[k] \in Digits
    /\ \A k \in a..(b - 2) : ~(t[k] = "." /\ t[k + 1] = ".")

\* A clause marker stands at p whose title has at least n characters: 1 or 2
\* digits that no digit precedes, groups of "." and digits, white space, and a
\* capital with n - 1 more characters of the line.
MarkerAt(t, p, n) ==
    /\ p >= 1
    /\ (p > 1 => t[p - 1] \notin Digits)
    /\ \E a \in {p + 1, p + 2} : \E b \in (a + 1)..Len(t) : \E c \in (b + 1)..Len(t) :
           /\ \A k \in p..(a - 1) : t[k] \in Digits
           /\ IsGroups(t, a, b)
           /\ \A k \in b..(c - 1) : t[k] \in Spaces
           /\ t[c] \in Uppers
           /\ c + n - 1 <= Len(t)
           /\ \A k \in (c + 1)..(c + n - 1) : t[k] # NL

\* The matches are the markers with a title of at least n characters, found
\* from left to right, each search starting where the match before ended.
MatchesAreMarkers(n) ==
    /\ \A i \in 1..Len(text_matches) :
           /\ MarkerAt(clause_text, text_matches[i].start, n)
           /\ \A q \in (IF i = 1 THEN 1 ELSE text_matches[i - 1].end)..(text_matches[i].start - 1) :
                  ~MarkerAt(clause_text, q, n)
    /\ \A q \in (IF text_matches = <<>> THEN 1 ELSE text_matches[Len(text_matches)].end)..Len(clause_text) :
           ~MarkerAt(clause_text, q, n)

\* C14 as stated: the matches of the clause pattern are the markers whose title
\* starts with a capital and has at least 5 characters.
\* "4.1 Exits" (a title of exactly 5 characters) is matched, so is
\* "12.3.4 Fire Safety Provisions", and "123 Something Here" is not.
C14_MarkerTitleOfFive ==
    clause_done =>
        /\ MatchesAreMarkers(5)
        /\ clause_text = <<"4",".","1"," ","E","x","i","t","s">> => Len(text_matches) = 1
        /\ clause_text = <<"1","2",".","3",".","4"," ","F","i","r","e"," ","S","a","f","e","t","y"," ","P","r","o","v","i","s","i","o","n","s">>
               => Len(text_matches) = 1 /\ text_matches[1].start = 1
        /\ clause_text = <<"1","2","3"," ","S","o","m","e","t","h","i","n","g"," ","H","e","r","e">>
               => text_matches = <<>>

\* The text from position a up to position b, b not included.
Between(a, b) == SubSeq(clause_text, a, b - 1)

\* Where the body of block i ends: the start of the next match, or the end of
\* the text.
BodyEnd(i) == IF i < Len(text_matches) THEN text_matches[i + 1].start ELSE Len(clause_text) + 1

\* A kept line: not empty, within one line, and trimmed.
IsParagraph(line) ==
    /\ line # <<>>
    /\ \A k \in 1..Len(line) : line[k] # NL
    /\ line[1] \notin Spaces
    /\ line[Len(line)] \notin Spaces

\* C15: extract_clause_blocks returns one block per match of the clause pattern,
\* in the order of the text; the matches do not overlap; block i has the number
\* and the title of match i, and its paragraphs are the cleaned non-blank lines
\* of the text from the end of match i to the start of match i+1 (the end of the
\* text for the last match).
C15_BlocksPartitionText ==
    clause_done =>
        /\ Len(text_blocks) = Len(text_matches)
        /\ \A i \in 1..Len(text_matches) :
               /\ 1 <= text_matches[i].start
               /\ text_matches[i].start < text_matches[i].end
               /\ text_matches[i].end <= BodyEnd(i)
               /\ BodyEnd(i) <= Len(clause_text) + 1
               /\ text_blocks[i].clause_number
                      = Between(text_matches[i].start, text_matches[i].start + Len(text_blocks[i].clause_number))
               /\ text_blocks[i].clause_title
                      = strip(Between(text_matches[i].end - Len(text_matches[i].group2), text_matches[i].end))
               /\ text_blocks[i].paragraphs = clean_paragraphs(Between(text_matches[i].end, BodyEnd(i)))
               /\ \A k \in 1..Len(text_blocks[i].paragraphs) : IsParagraph(text_blocks[i].paragraphs[k])

\* A text with two markers, a third numeral inside the second title, blank
\* lines and a footer line in the first body.
C15_Witness ==
    /\ clause_done
    /\ Len(text_matches) = 2
    /\ text_blocks[1].clause_number = <<"4",".","1">>
    /\ text_blocks[1].paragraphs = <<<<"t","w","o">>, <<"e","n","d">>>>
    /\ text_blocks[2].clause_number = <<"4",".","2">>
    /\ text_blocks[2].paragraphs = <<<<"p","a","t","h">>>>

\* The records R of a page whose text (text layer or OCR) is text and in whose
\* cleaned text the clause pattern has the matches M: one record per match, in
\* the order of the matches, or, without a match, one record with an empty
\* number and title and all the cleaned lines of the text.
PageRecordsAsStated(R, M, text) ==
    IF M # <<>>
    THEN /\ Len(R) = Len(M)
         /\ \A i \in 1..Len(M) :
                /\ R[i].clause_number = M[i].group1
                /\ R[i].clause_title = strip(M[i].group2)
    ELSE /\ Len(R) = 1
         /\ R[1].clause_number = <<>>
         /\ R[1].clause_title = <<>>
         /\ R[1].paragraphs = clean_paragraphs(text)

\* C16: when process_pdf returns, the records' pages are page numbers of the
\* document counted from 1 and never decrease along the list; a page with k >= 1
\* clause markers in its cleaned text has exactly k records, in the order of
\* the markers, and a page with none has exactly one record, with an empty
\* clause_number and clause_title and the page's whole cleaned text as paragraphs.
C16_RecordsByPageThenClause ==
    (pdf_done /\ ~pdf_result.raised) =>
        /\ \A k \in 1..Len(pdf_result.value) :
               /\ pdf_result.value[k].page \in 1..Len(pdf_doc)
               /\ k > 1 => pdf_result.value[k - 1].page <= pdf_result.value[k].page
        /\ \A p \in 1..Len(pdf_doc) :
               PageRecordsAsStated(
                   RecordsOfPage(p),
                   clause_finditer(join(<<NL>>, clean_paragraphs(page_text(pdf_doc[p]).value)), 1),
                   page_text(pdf_doc[p]).value)

\* A page with two markers followed by a page with none.
C16_Witness ==
    /\ pdf_done
    /\ ~pdf_result.raised
    /\ pdf_doc = <<PageClauses, PageTables>>
    /\ Len(pdf_result.value) = 3
    /\ pdf_result.value[1].page = 1
    /\ pdf_result.value[1].clause_number = <<"1",".","1">>
    /\ pdf_result.value[2].page = 1
    /\ pdf_result.value[2].clause_number = <<"1",".","2">>
    /\ pdf_result.value[3].page = 2
    /\ pdf_result.value[3].clause_number = <<>>
    /\ Len(pdf_result.value[3].paragraphs) = 2

\* The step is an ingestion into the collection n: an ingesting request or
\* script for that name that came to the store (a request that is refused, or
\* whose document or file cannot be read, makes no call).
IngestionInto(n) ==
    /\ req'.op \in IngestOps
    /\ req'.authorized
    /\ req'.collection_name = n
    /\ calls' # <<>>

\* The step is an authorized DELETE /delete_collection/n.
DeletionOf(n) ==
    /\ req'.op = "delete_collection"
    /\ req'.authorized
    /\ req'.collection_name = n

\* The step is a POST /chat on the collection n.
QueryOn(n) ==
    /\ req'.op = "chat"
    /\ req'.collection_id = n

\* The lifecycle of the collection n in one step.
LifecycleStep(n) ==
    /\ QueryOn(n) =>
           /\ collections' = collections
           /\ ~collections[n].exists =>
                  resp' = HttpError(404, "Collection not found", n)
    /\ IngestionInto(n) => collections'[n].exists
    /\ (~collections[n].exists /\ collections'[n].exists) => IngestionInto(n)
    /\ (collections[n].exists /\ ~collections'[n].exists) => DeletionOf(n)
    /\ DeletionOf(n) =>
           IF collections[n].exists
           THEN /\ resp'.status = 200
                /\ collections' = [collections EXCEPT ![n] = Absent]
           ELSE /\ resp' = HttpError(404, "Failed to delete collection", "does not exist")
                /\ collections' = collections

\* C17: in every step, a query leaves the collections as they are; a collection
\* comes to exist only by an ingestion into its name, and exists after every
\* such ingestion; it ceases to exist only by a deletion of its name; a query on
\* a name that does not exist (never ingested, or deleted and not ingested
\* since) is answered 404 collection not found; and deleting a name that does
\* not exist is answered with an error and changes no collection.
C17_CollectionLifecycle ==
    [][\A n \in Names : LifecycleStep(n)]_vars

\* The collection "other" has just been deleted after an ingestion into it,
\* and the collection of the other ingestions is still there.
C17_Witness ==
    /\ req.op = "delete_collection"
    /\ req.authorized
    /\ req.collection_name = "other"
    /\ resp.status = 200
    /\ ~collections["other"].exists
    /\ collections[COLLECTION_NAME].exists
    /\ uuids > 0

====
